---- MODULE Spec2Model ----
(***************************************************************************)
(* Model capability synchronisation: the static capability mapping and its *)
(* lookup, the capability sync route (POST = apply, GET = preview) and the  *)
(* model store it reads and writes.                                        *)
(*                                                                         *)
(* Values.  A JavaScript value is a tagged record, so that strict equality  *)
(* (===) is TLA+ equality: null, undefined, a number and a string are       *)
(* pairwise different, and 0 is a number, not null.  Prices are held in     *)
(* thousandths of a dollar (0.02 is Num(20), 0.025 is Num(25)).             *)
(***************************************************************************)
EXTENDS Integers, Sequences, FiniteSets, TLC

Null == [t |-> "null"]
Undefined == [t |-> "undefined"]
Num(n) == [t |-> "num", v |-> n]
Str(s) == [t |-> "str", s |-> s]

(* JavaScript truthiness of the values a key can take: !x *)
Falsy(x) == x.t \in {"null", "undefined"} \/ x = Str("") \/ x = Num(0)

Caps(imageGen, webSearch) ==
  [pricingImageGen |-> imageGen, pricingWebSearch |-> webSearch]

(***************************************************************************)
(* The static mapping, entry by entry.                                     *)
(***************************************************************************)
MODEL_CAPABILITIES ==
     ("openai/gpt-5" :> Caps(Num(20), Num(25)))
  @@ ("openai/gpt-5-chat" :> Caps(Num(20), Num(25)))
  @@ ("openai/gpt-5-mini" :> Caps(Num(20), Num(25)))
  @@ ("openai/gpt-5.2" :> Caps(Num(20), Num(25)))
  @@ ("openai/gpt-4o" :> Caps(Num(20), Null))
  @@ ("openai/gpt-4o-mini" :> Caps(Num(20), Null))
  @@ ("google/gemini-2.5-flash" :> Caps(Num(20), Null))
  @@ ("google/gemini-2.5-flash-lite" :> Caps(Num(20), Null))
  @@ ("google/gemini-2.5-pro" :> Caps(Num(20), Null))
  @@ ("google/gemini-3-flash" :> Caps(Num(20), Null))
  @@ ("google/gemini-3-pro-preview" :> Caps(Num(20), Null))
  @@ ("google/gemini-3-pro-image" :> Caps(Num(20), Null))
  @@ ("xai/grok-3" :> Caps(Null, Num(50)))
  @@ ("xai/grok-3-fast" :> Caps(Null, Num(50)))
  @@ ("xai/grok-3-mini" :> Caps(Null, Num(50)))
  @@ ("xai/grok-4" :> Caps(Null, Num(50)))
  @@ ("perplexity/sonar" :> Caps(Null, Num(5)))
  @@ ("perplexity/sonar-pro" :> Caps(Null, Num(5)))
  @@ ("perplexity/sonar-reasoning" :> Caps(Null, Num(5)))
  @@ ("perplexity/sonar-reasoning-pro" :> Caps(Null, Num(5)))

(* MODEL_CAPABILITIES[id] is truthy: every entry is an object. *)
InMapping(id) == id \in DOMAIN MODEL_CAPABILITIES

(* Mutant of getModelCapabilities: the id is trimmed and lower-cased before  *)
(* it is looked up.                                                         *)
getModelCapabilities_normalized(modelId) ==
  LET key == IF modelId = "openai/GPT-4o" THEN "openai/gpt-4o"
             ELSE IF modelId = "xai/grok-3 " THEN "xai/grok-3"
             ELSE modelId
  IN IF key \in DOMAIN MODEL_CAPABILITIES
       THEN MODEL_CAPABILITIES[key]
       ELSE Caps(Null, Null)

(* MODEL_CAPABILITIES[modelId] ?? { pricingImageGen: null, pricingWebSearch: null } *)
getModelCapabilities(modelId) ==
  IF modelId \in DOMAIN MODEL_CAPABILITIES
    THEN MODEL_CAPABILITIES[modelId]
    ELSE Caps(Null, Null)

(***************************************************************************)
(* The model store.  Model ids have the gateway's "<provider>/<name>" form  *)
(* (the gateway sync derives the provider as id.split("/")[0]).  The rows   *)
(* are read in the order of StoreIds.                                      *)
(***************************************************************************)
StoreIds == <<"acme/custom-1", "openai/gpt-4o", "xai/grok-3">>

IdSet == {StoreIds[i] : i \in 1..Len(StoreIds)}

(* Ids the lookup is asked about: the stored ids, every key of the mapping,  *)
(* and ids of the same form that are near a key without being one.          *)
LookupIds ==
  IdSet \cup DOMAIN MODEL_CAPABILITIES
    \cup {"openai/gpt-4", "openai/GPT-4o", "xai/grok-3 ", "openai/gpt-4o/",
          "anthropic/claude-sonnet-4"}

(* The prices a row of the store may hold before any sync: absent, the      *)
(* price of the mapping, and zero where the mapping has no price (for a row *)
(* the mapping does not name, for a web-search price it leaves absent).     *)
ImageGenPrices(id) ==
  {Null, getModelCapabilities(id).pricingImageGen}
    \cup (IF InMapping(id) THEN {} ELSE {Num(0)})

WebSearchPrices(id) ==
  {Null, getModelCapabilities(id).pricingWebSearch}
    \cup (IF getModelCapabilities(id).pricingWebSearch = Null
            THEN {Num(0)} ELSE {})

NoRow == [present |-> FALSE, pricingImageGen |-> Null, pricingWebSearch |-> Null]

Row(imageGen, webSearch) ==
  [present |-> TRUE, pricingImageGen |-> imageGen, pricingWebSearch |-> webSearch]

RowsOf(id) ==
  {NoRow} \cup {Row(a, b) : a \in ImageGenPrices(id), b \in WebSearchPrices(id)}

(* The configured secret (process.env.MODELS_SYNC_API_KEY) and the keys a   *)
(* caller may send (request.headers.get("x-api-key"), null when absent).    *)
EnvKeys == {Undefined, Str(""), Str("s3cret")}

HeaderKeys == {Null, Str(""), Str("s3cret"), Str("wrong")}

MaxInvocations == 2

MaxExternal == 1

MaxLookups == 2

(***************************************************************************)
(* store       the rows of the model store, by id                          *)
(* env         process.env.MODELS_SYNC_API_KEY                             *)
(* req         the request slots: the handler's position and locals        *)
(* invocations requests received so far                                    *)
(* externals   writes of other writers so far                              *)
(* prev        history: the last apply that returned a report, and whether *)
(*             the store has been left alone since that apply read it      *)
(* lookups     the calls of getModelCapabilities made on their own         *)
(* pricing     a call of parsePricing: its argument, then its result       *)
(* scrape      a call of scrapeVercelModelsPage: the answer the page server *)
(*             will give, the position of the call, then its result        *)
(***************************************************************************)
VARIABLES store, env, req, invocations, externals, prev, lookups,
          pricing, scrape

vars == <<store, env, req, invocations, externals, prev, lookups,
          pricing, scrape>>

(* A function of the scraper that has not been called. *)
NotCalled == [pc |-> "idle"]

(***************************************************************************)
(* Responses.  Response.json(body) is an ok response carrying the body; a   *)
(* ChatSDKError(code, cause).toResponse() is an error response.            *)
(***************************************************************************)
NoResponse == [ok |-> FALSE, code |-> "none", cause |-> "none"]

ErrorResponse(code, cause) == [ok |-> FALSE, code |-> code, cause |-> cause]

JsonResponse(body) == [ok |-> TRUE, body |-> body]

(* updateResult before the write has returned. *)
NoResult == [total |-> -1, successful |-> -1, failed |-> -1, errors |-> <<>>]

(* History: no earlier apply to speak of. *)
NoPrev == [valid |-> FALSE, successful |-> 0, failed |-> 0]

(* A request slot before a request arrives: no locals, no response.         *)
(* readCalls and writeCalls count the calls of getEnabledModels and of      *)
(* bulkUpdateModelCapabilities, fetched says that the read has returned,    *)
(* threw that an exception reached the catch.  pred and clean are history:  *)
(* what prev was when the request read the store, and whether nobody else   *)
(* has written the store since.                                             *)
Idle ==
  [pc |-> "idle", method |-> "none", apiKey |-> Null,
   existingModels |-> <<>>, updates |-> <<>>, unchanged |-> <<>>,
   notInMapping |-> <<>>, readCalls |-> 0, fetched |-> FALSE,
   writeCalls |-> 0,
   processed |-> 0, successful |-> 0, failed |-> 0, errors |-> <<>>,
   updateResult |-> NoResult, threw |-> FALSE,
   pred |-> NoPrev, clean |-> FALSE,
   response |-> NoResponse]

Min(a, b) == IF a < b THEN a ELSE b

(* s.slice(0, n) *)
Slice(s, n) == SubSeq(s, 1, Min(n, Len(s)))

(* s.map(m => m.id) *)
Ids(s) == [i \in 1..Len(s) |-> s[i].id]

(***************************************************************************)
(* getEnabledModels(): the rows of the store, in the store's order.  Its    *)
(* code is outside the sources at hand; it is a read of the store.          *)
(***************************************************************************)
getEnabledModels(s) ==
  LET rows == [i \in 1..Len(StoreIds) |->
                 [id |-> StoreIds[i],
                  pricingImageGen |-> s[StoreIds[i]].pricingImageGen,
                  pricingWebSearch |-> s[StoreIds[i]].pricingWebSearch]]
  IN SelectSeq(rows, LAMBDA m : s[m.id].present)

(***************************************************************************)
(* The loop body of both handlers: the comparison of a row with its lookup. *)
(***************************************************************************)
(* Mutant of imageGenChanged: a price of 0 is taken for an absent one, as    *)
(* (a || null) !== (b || null) would.                                       *)
imageGenChanged_zeroIsAbsent(existingModel) ==
  LET orNull(x) == IF Falsy(x) THEN Null ELSE x
  IN orNull(existingModel.pricingImageGen)
       # orNull(getModelCapabilities(existingModel.id).pricingImageGen)

imageGenChanged(existingModel) ==
  existingModel.pricingImageGen
    # getModelCapabilities(existingModel.id).pricingImageGen

webSearchChanged(existingModel) ==
  existingModel.pricingWebSearch
    # getModelCapabilities(existingModel.id).pricingWebSearch

Changed(existingModel) ==
  imageGenChanged(existingModel) \/ webSearchChanged(existingModel)

(* Mutant of Updates: the record pushed holds the row's own prices, not    *)
(* the looked-up ones.                                                      *)
Updates_currentValues(existingModels) ==
  LET ch == SelectSeq(existingModels, Changed)
  IN [i \in 1..Len(ch) |->
        [id |-> ch[i].id,
         pricingImageGen |-> ch[i].pricingImageGen,
         pricingWebSearch |-> ch[i].pricingWebSearch]]

(* Mutant of Updates: the loop pushes every model, changed or not. *)
Updates_everyModel(existingModels) ==
  [i \in 1..Len(existingModels) |->
     [id |-> existingModels[i].id,
      pricingImageGen |->
        getModelCapabilities(existingModels[i].id).pricingImageGen,
      pricingWebSearch |->
        getModelCapabilities(existingModels[i].id).pricingWebSearch]]

(* Mutant of Updates: a model of the mapping that the read did not return   *)
(* is pushed as well.                                                       *)
Updates_mappingOnly(existingModels) ==
  LET ch == SelectSeq(existingModels, Changed)
      read == {existingModels[i].id : i \in 1..Len(existingModels)}
      missing == IF "openai/gpt-5" \in read THEN <<>>
                 ELSE <<[id |-> "openai/gpt-5",
                         pricingImageGen |->
                           getModelCapabilities("openai/gpt-5").pricingImageGen,
                         pricingWebSearch |->
                           getModelCapabilities("openai/gpt-5").pricingWebSearch]>>
  IN [i \in 1..Len(ch) |->
        [id |-> ch[i].id,
         pricingImageGen |-> getModelCapabilities(ch[i].id).pricingImageGen,
         pricingWebSearch |-> getModelCapabilities(ch[i].id).pricingWebSearch]]
       \o missing

(* Mutant of Updates: the loop goes to the next model once it has pushed a  *)
(* model to notInMapping.                                                   *)
Updates_mappedOnly(existingModels) ==
  LET ch == SelectSeq(existingModels, LAMBDA m : Changed(m) /\ InMapping(m.id))
  IN [i \in 1..Len(ch) |->
        [id |-> ch[i].id,
         pricingImageGen |-> getModelCapabilities(ch[i].id).pricingImageGen,
         pricingWebSearch |-> getModelCapabilities(ch[i].id).pricingWebSearch]]

(* Mutant of Updates: the record holds the looked-up image price and the    *)
(* web-search price that was read.                                          *)
Updates_keepsWebSearch(existingModels) ==
  LET ch == SelectSeq(existingModels, Changed)
  IN [i \in 1..Len(ch) |->
        [id |-> ch[i].id,
         pricingImageGen |-> getModelCapabilities(ch[i].id).pricingImageGen,
         pricingWebSearch |-> ch[i].pricingWebSearch]]

(* POST: the three lists the loop fills, in the order of existingModels. *)
Updates(existingModels) ==
  LET ch == SelectSeq(existingModels, Changed)
  IN [i \in 1..Len(ch) |->
        [id |-> ch[i].id,
         pricingImageGen |-> getModelCapabilities(ch[i].id).pricingImageGen,
         pricingWebSearch |-> getModelCapabilities(ch[i].id).pricingWebSearch]]

(* Mutant of Unchanged: a model that is not in the mapping is left to the   *)
(* not-in-mapping list alone.                                               *)
Unchanged_mappedOnly(existingModels) ==
  Ids(SelectSeq(existingModels, LAMBDA m : ~Changed(m) /\ InMapping(m.id)))

Unchanged(existingModels) ==
  Ids(SelectSeq(existingModels, LAMBDA m : ~Changed(m)))

NotInMapping(existingModels) ==
  Ids(SelectSeq(existingModels, LAMBDA m : ~InMapping(m.id)))

(* Mutant of ApplyReport: updated counts the records submitted, not the    *)
(* records the write reports as successful.                                 *)
ApplyReport_updatedIsBatch(q, updateResult) ==
  [success |-> TRUE,
   source |-> "static-mapping",
   summary |->
     [totalModels |-> Len(q.existingModels),
      inMapping |-> Cardinality(DOMAIN MODEL_CAPABILITIES),
      updated |-> Len(q.updates),
      unchanged |-> Len(q.unchanged),
      notInMapping |-> Len(q.notInMapping),
      failed |-> updateResult.failed],
   details |->
     [updated |-> [i \in 1..Len(q.updates) |->
                     [id |-> q.updates[i].id,
                      pricingImageGen |-> q.updates[i].pricingImageGen,
                      pricingWebSearch |-> q.updates[i].pricingWebSearch]],
      notInMapping |-> Slice(q.notInMapping, 20),
      errors |-> updateResult.errors]]

(* POST: the report built from the locals and the result of the write. *)
ApplyReport(q, updateResult) ==
  [success |-> TRUE,
   source |-> "static-mapping",
   summary |->
     [totalModels |-> Len(q.existingModels),
      inMapping |-> Cardinality(DOMAIN MODEL_CAPABILITIES),
      updated |-> updateResult.successful,
      unchanged |-> Len(q.unchanged),
      notInMapping |-> Len(q.notInMapping),
      failed |-> updateResult.failed],
   details |->
     [updated |-> [i \in 1..Len(q.updates) |->
                     [id |-> q.updates[i].id,
                      pricingImageGen |-> q.updates[i].pricingImageGen,
                      pricingWebSearch |-> q.updates[i].pricingWebSearch]],
      notInMapping |-> Slice(q.notInMapping, 20),
      errors |-> updateResult.errors]]

(* Mutant of Preview: the entries come out last model first. *)
Preview_reversed(existingModels) ==
  [i \in 1..Len(existingModels) |->
     LET m == existingModels[Len(existingModels) + 1 - i]
     IN [id |-> m.id,
         current |-> Caps(m.pricingImageGen, m.pricingWebSearch),
         new |-> getModelCapabilities(m.id),
         willUpdate |-> Changed(m),
         inMapping |-> InMapping(m.id)]]

(* Mutant of Preview: the preview compares the image price loosely, a      *)
(* price of 0 counting as an absent one, while the apply compares strictly. *)
Preview_zeroIsAbsent(existingModels) ==
  [i \in 1..Len(existingModels) |->
     [id |-> existingModels[i].id,
      current |-> Caps(existingModels[i].pricingImageGen,
                       existingModels[i].pricingWebSearch),
      new |-> getModelCapabilities(existingModels[i].id),
      willUpdate |-> \/ imageGenChanged_zeroIsAbsent(existingModels[i])
                     \/ webSearchChanged(existingModels[i]),
      inMapping |-> InMapping(existingModels[i].id)]]

(* GET: one preview entry per row, and the report with its summary. *)
Preview(existingModels) ==
  [i \in 1..Len(existingModels) |->
     [id |-> existingModels[i].id,
      current |-> Caps(existingModels[i].pricingImageGen,
                       existingModels[i].pricingWebSearch),
      new |-> getModelCapabilities(existingModels[i].id),
      willUpdate |-> Changed(existingModels[i]),
      inMapping |-> InMapping(existingModels[i].id)]]

PreviewReport(preview) ==
  [success |-> TRUE,
   source |-> "static-mapping",
   mappingVersion |-> "2026-01-05",
   preview |-> preview,
   summary |->
     [total |-> Len(preview),
      willUpdate |-> Len(SelectSeq(preview, LAMBDA p : p.willUpdate)),
      unchanged |-> Len(SelectSeq(preview, LAMBDA p : ~p.willUpdate)),
      inMapping |-> Len(SelectSeq(preview, LAMBDA p : p.inMapping)),
      notInMapping |-> Len(SelectSeq(preview, LAMBDA p : ~p.inMapping))]]

(***************************************************************************)
(* Init: any store, any configuration of the secret, no request in flight.  *)
(***************************************************************************)
Reqs == {1}

Stores ==
  {s \in [IdSet -> UNION {RowsOf(id) : id \in IdSet}] :
     \A id \in IdSet : s[id] \in RowsOf(id)}

Init ==
  /\ store \in Stores
  /\ env \in EnvKeys
  /\ req = [r \in Reqs |-> Idle]
  /\ invocations = 0
  /\ externals = 0
  /\ prev = NoPrev
  /\ lookups = <<>>
  /\ pricing = NotCalled
  /\ scrape = NotCalled

(* History: every slot but r that has read the store has now seen it change. *)
Disturb(rq, r) ==
  [x \in DOMAIN rq |-> IF x = r THEN rq[x] ELSE [rq[x] EXCEPT !.clean = FALSE]]

(***************************************************************************)
(* The key checks that open both handlers.  An authorized request issues    *)
(* the read of the store and waits for it.                                  *)
(***************************************************************************)
(* Mutant of Authorize: the caller's key is compared before the secret is   *)
(* looked at.                                                               *)
Authorize_keyFirst(method, apiKey, expectedApiKey) ==
  IF apiKey # expectedApiKey
    THEN [Idle EXCEPT !.pc = "done", !.method = method, !.apiKey = apiKey,
            !.response = ErrorResponse("unauthorized:api", "Invalid API key")]
  ELSE IF Falsy(expectedApiKey)
    THEN [Idle EXCEPT !.pc = "done", !.method = method, !.apiKey = apiKey,
            !.response = ErrorResponse("bad_request:api",
                                       "MODELS_SYNC_API_KEY not configured")]
  ELSE [Idle EXCEPT !.pc = "reading", !.method = method, !.apiKey = apiKey,
          !.readCalls = 1]

Authorize(method, apiKey, expectedApiKey) ==
  IF Falsy(expectedApiKey)
    THEN [Idle EXCEPT !.pc = "done", !.method = method, !.apiKey = apiKey,
            !.response = ErrorResponse("bad_request:api",
                                       "MODELS_SYNC_API_KEY not configured")]
  ELSE IF apiKey # expectedApiKey
    THEN [Idle EXCEPT !.pc = "done", !.method = method, !.apiKey = apiKey,
            !.response = ErrorResponse("unauthorized:api", "Invalid API key")]
  ELSE [Idle EXCEPT !.pc = "reading", !.method = method, !.apiKey = apiKey,
          !.readCalls = 1]

(* POST, up to the await of getEnabledModels(). *)
POST_begin(r) ==
  /\ req[r].pc = "idle"
  /\ invocations < MaxInvocations
  /\ \E apiKey \in HeaderKeys :
       req' = [req EXCEPT ![r] = Authorize("POST", apiKey, env)]
  /\ invocations' = invocations + 1
  /\ UNCHANGED <<store, env, externals, prev, lookups,
               pricing, scrape>>

(* Mutant of POST_read: the write is called whatever the length of updates. *)
POST_read_alwaysWrites(r) ==
  /\ req[r].pc = "reading"
  /\ req[r].method = "POST"
  /\ LET existingModels == getEnabledModels(store)
     IN req' = [req EXCEPT ![r] =
                  [@ EXCEPT !.pc = "writing", !.writeCalls = @ + 1,
                     !.fetched = TRUE,
                     !.existingModels = existingModels,
                     !.updates = Updates(existingModels),
                     !.unchanged = Unchanged(existingModels),
                     !.notInMapping = NotInMapping(existingModels),
                     !.pred = prev, !.clean = TRUE]]
  /\ UNCHANGED <<store, env, invocations, externals, prev, lookups,
               pricing, scrape>>

(* POST, from the result of the read up to the await of the bulk write, or  *)
(* up to the report when there is nothing to write.                         *)
POST_read(r) ==
  /\ req[r].pc = "reading"
  /\ req[r].method = "POST"
  /\ LET existingModels == getEnabledModels(store)
         q == [req[r] EXCEPT !.fetched = TRUE,
                             !.existingModels = existingModels,
                             !.updates = Updates(existingModels),
                             !.unchanged = Unchanged(existingModels),
                             !.notInMapping = NotInMapping(existingModels),
                             !.pred = prev, !.clean = TRUE]
         none == [total |-> 0, successful |-> 0, failed |-> 0, errors |-> <<>>]
     IN IF Len(q.updates) > 0
          THEN /\ req' = [req EXCEPT ![r] =
                            [q EXCEPT !.pc = "writing", !.writeCalls = @ + 1]]
               /\ prev' = prev
          ELSE /\ req' = [req EXCEPT ![r] =
                            [q EXCEPT !.pc = "done", !.updateResult = none,
                               !.response = JsonResponse(ApplyReport(q, none))]]
               /\ prev' = [valid |-> TRUE, successful |-> 0, failed |-> 0]
  /\ UNCHANGED <<store, env, invocations, externals, lookups,
               pricing, scrape>>

(* Mutant of POST_write: a result with failed records is answered with an   *)
(* error instead of the report.                                             *)
POST_write_escalates(r) ==
  /\ req[r].pc = "writing"
  /\ req[r].processed = Len(req[r].updates)
  /\ LET updateResult == [total |-> Len(req[r].updates),
                          successful |-> req[r].successful,
                          failed |-> req[r].failed,
                          errors |-> req[r].errors]
     IN req' = [req EXCEPT ![r] =
                  [@ EXCEPT !.pc = "done", !.updateResult = updateResult,
                     !.response =
                       IF updateResult.failed > 0
                         THEN ErrorResponse("bad_request:api",
                                            "Failed to sync capabilities")
                         ELSE JsonResponse(ApplyReport(req[r], updateResult))]]
  /\ prev' = [valid |-> req[r].clean, successful |-> req[r].successful,
              failed |-> req[r].failed]
  /\ UNCHANGED <<store, env, invocations, externals, lookups,
               pricing, scrape>>

(* POST, from the result of the bulk write to the report. *)
POST_write(r) ==
  /\ req[r].pc = "writing"
  /\ req[r].processed = Len(req[r].updates)
  /\ LET updateResult == [total |-> Len(req[r].updates),
                          successful |-> req[r].successful,
                          failed |-> req[r].failed,
                          errors |-> req[r].errors]
     IN req' = [req EXCEPT ![r] =
                  [@ EXCEPT !.pc = "done", !.updateResult = updateResult,
                     !.response =
                       JsonResponse(ApplyReport(req[r], updateResult))]]
  /\ prev' = [valid |-> req[r].clean, successful |-> req[r].successful,
              failed |-> req[r].failed]
  /\ UNCHANGED <<store, env, invocations, externals, lookups,
               pricing, scrape>>

(* Mutant of POST_catch: the exception is answered with an empty report. *)
POST_catch_emptyReport(r) ==
  /\ req[r].method = "POST"
  /\ req[r].pc \in {"reading", "writing"}
  /\ req' = [req EXCEPT ![r] =
               [@ EXCEPT !.pc = "done", !.threw = TRUE,
                  !.response = JsonResponse(ApplyReport(Idle,
                    [total |-> 0, successful |-> 0, failed |-> 0,
                     errors |-> <<>>]))]]
  /\ prev' = NoPrev
  /\ UNCHANGED <<store, env, invocations, externals, lookups,
               pricing, scrape>>

(* POST: an exception of the read or of the write reaches the catch. *)
POST_catch(r) ==
  /\ req[r].method = "POST"
  /\ req[r].pc \in {"reading", "writing"}
  /\ req' = [req EXCEPT ![r] =
               [@ EXCEPT !.pc = "done", !.threw = TRUE,
                  !.response = ErrorResponse("bad_request:api",
                                             "Failed to sync capabilities")]]
  /\ prev' = NoPrev
  /\ UNCHANGED <<store, env, invocations, externals, lookups,
               pricing, scrape>>

(* GET, up to the await of getEnabledModels(). *)
GET_begin(r) ==
  /\ req[r].pc = "idle"
  /\ invocations < MaxInvocations
  /\ \E apiKey \in HeaderKeys :
       req' = [req EXCEPT ![r] = Authorize("GET", apiKey, env)]
  /\ invocations' = invocations + 1
  /\ UNCHANGED <<store, env, externals, prev, lookups,
               pricing, scrape>>

(* Mutant of GET_read: the preview writes the new values it reports. *)
GET_read_applies(r) ==
  /\ req[r].pc = "reading"
  /\ req[r].method = "GET"
  /\ LET existingModels == getEnabledModels(store)
     IN /\ req' = [req EXCEPT ![r] =
                     [@ EXCEPT !.pc = "done", !.fetched = TRUE,
                        !.existingModels = existingModels,
                        !.response =
                          JsonResponse(PreviewReport(Preview(existingModels)))]]
        /\ store' = [id \in IdSet |->
                       IF store[id].present
                         THEN Row(getModelCapabilities(id).pricingImageGen,
                                  getModelCapabilities(id).pricingWebSearch)
                         ELSE store[id]]
  /\ UNCHANGED <<env, invocations, externals, prev, lookups,
               pricing, scrape>>

(* GET, from the result of the read to the report. *)
GET_read(r) ==
  /\ req[r].pc = "reading"
  /\ req[r].method = "GET"
  /\ LET existingModels == getEnabledModels(store)
     IN req' = [req EXCEPT ![r] =
                  [@ EXCEPT !.pc = "done", !.fetched = TRUE,
                     !.existingModels = existingModels,
                     !.response =
                       JsonResponse(PreviewReport(Preview(existingModels)))]]
  /\ UNCHANGED <<store, env, invocations, externals, prev, lookups,
               pricing, scrape>>

(* GET: an exception of the read reaches the catch. *)
GET_catch(r) ==
  /\ req[r].method = "GET"
  /\ req[r].pc = "reading"
  /\ req' = [req EXCEPT ![r] =
               [@ EXCEPT !.pc = "done", !.threw = TRUE,
                  !.response = ErrorResponse("bad_request:api",
                                             "Failed to preview capabilities")]]
  /\ UNCHANGED <<store, env, invocations, externals, prev, lookups,
               pricing, scrape>>

(***************************************************************************)
(* bulkUpdateModelCapabilities(updates), on the store's side: the records   *)
(* are taken in order, each one either written or refused with an error     *)
(* entry; a refused record does not stop the ones after it.                 *)
(***************************************************************************)
bulkUpdateModelCapabilities(r, success) ==
  /\ req[r].pc = "writing"
  /\ req[r].processed < Len(req[r].updates)
  /\ LET u == req[r].updates[req[r].processed + 1]
     IN IF success
          THEN /\ store' = [store EXCEPT ![u.id] =
                              Row(u.pricingImageGen, u.pricingWebSearch)]
               /\ req' = Disturb([req EXCEPT ![r] =
                                    [@ EXCEPT !.processed = @ + 1,
                                              !.successful = @ + 1]], r)
               /\ prev' = NoPrev
          ELSE /\ store' = store
               /\ req' = [req EXCEPT ![r] =
                            [@ EXCEPT !.processed = @ + 1,
                                      !.failed = @ + 1,
                                      !.errors = Append(@,
                                         [id |-> u.id,
                                          error |-> "update failed"])]]
               /\ prev' = prev
  /\ UNCHANGED <<env, invocations, externals, lookups,
               pricing, scrape>>

(* The response leaves the handler: its locals are gone. *)
Respond(r) ==
  /\ req[r].pc = "done"
  /\ req' = [req EXCEPT ![r] = Idle]
  /\ UNCHANGED <<store, env, invocations, externals, prev, lookups,
               pricing, scrape>>

(* Another writer of the store (the gateway sync, an operator): a row is    *)
(* inserted or its prices are changed.                                      *)
ExternalWrite ==
  /\ externals < MaxExternal
  /\ \E id \in IdSet : \E row \in RowsOf(id) \ {NoRow, store[id]} :
       store' = [store EXCEPT ![id] = row]
  /\ externals' = externals + 1
  /\ req' = [x \in DOMAIN req |-> [req[x] EXCEPT !.clean = FALSE]]
  /\ prev' = NoPrev
  /\ UNCHANGED <<env, invocations, lookups,
               pricing, scrape>>

Next ==
  \/ \E r \in DOMAIN req : POST_begin(r)
  \/ \E r \in DOMAIN req : POST_read(r)
  \/ \E r \in DOMAIN req : POST_write(r)
  \/ \E r \in DOMAIN req : POST_catch(r)
  \/ \E r \in DOMAIN req : GET_begin(r)
  \/ \E r \in DOMAIN req : GET_read(r)
  \/ \E r \in DOMAIN req : GET_catch(r)
  \/ \E r \in DOMAIN req : Respond(r)
  \/ \E r \in DOMAIN req, success \in BOOLEAN :
       bulkUpdateModelCapabilities(r, success)
  \/ ExternalWrite

Spec == Init /\ [][Next]_vars

(***************************************************************************)
(* Overlapping requests.  The route holds no lock and no state of its own,  *)
(* so a request may be received while another awaits the read or the        *)
(* write.  Slots 1 and 2 each serve one request, in any interleaving of     *)
(* their steps and of the single writes of their batches; slot 3 serves an  *)
(* apply that arrives once both have answered.  The slots keep their locals *)
(* and their response after they have answered.  The requests are the only  *)
(* writers of the store.                                                    *)
(***************************************************************************)
Overlapping == {1, 2}

Following == 3

InitOverlap ==
  /\ store \in Stores
  /\ env = Str("s3cret")
  /\ req = [r \in Overlapping \cup {Following} |-> Idle]
  /\ invocations = 0
  /\ externals = 0
  /\ prev = NoPrev
  /\ lookups = <<>>
  /\ pricing = NotCalled
  /\ scrape = NotCalled

(* POST with the configured key, received after both overlapping requests   *)
(* have answered.                                                           *)
POST_following ==
  /\ req[Following].pc = "idle"
  /\ \A r \in Overlapping : req[r].pc = "done"
  /\ req' = [req EXCEPT ![Following] = Authorize("POST", env, env)]
  /\ UNCHANGED <<store, env, invocations, externals, prev, lookups,
               pricing, scrape>>

NextOverlap ==
  \/ \E r \in Overlapping : POST_begin(r)
  \/ \E r \in Overlapping : GET_begin(r)
  \/ POST_following
  \/ \E r \in DOMAIN req : POST_read(r)
  \/ \E r \in DOMAIN req : POST_write(r)
  \/ \E r \in DOMAIN req : POST_catch(r)
  \/ \E r \in DOMAIN req : GET_read(r)
  \/ \E r \in DOMAIN req : GET_catch(r)
  \/ \E r \in DOMAIN req, success \in BOOLEAN :
       bulkUpdateModelCapabilities(r, success)

SpecOverlap == InitOverlap /\ [][NextOverlap]_vars

(***************************************************************************)
(* The lookup on its own: getModelCapabilities called on any id.            *)
(***************************************************************************)
InitLookup ==
  /\ store = [id \in IdSet |-> NoRow]
  /\ env = Undefined
  /\ req = [r \in Reqs |-> Idle]
  /\ invocations = 0
  /\ externals = 0
  /\ prev = NoPrev
  /\ lookups = <<>>
  /\ pricing = NotCalled
  /\ scrape = NotCalled

Lookup ==
  /\ Len(lookups) < MaxLookups
  /\ \E modelId \in LookupIds :
       lookups' = Append(lookups, [modelId |-> modelId,
                                   result |-> getModelCapabilities(modelId)])
  /\ UNCHANGED <<store, env, req, invocations, externals, prev,
               pricing, scrape>>

NextLookup == Lookup

SpecLookup == InitLookup /\ [][NextLookup]_vars

(***************************************************************************)
(* The scraper (lib/scrapers/vercel-models.ts).                            *)
(*                                                                         *)
(* Strings are strings, read character by character.  The values the       *)
(* scraper meets come from JSON.parse, so beside null, undefined, numbers  *)
(* and strings there are NaN, booleans, arrays and objects.                *)
(***************************************************************************)
NaN == [t |-> "nan"]
Bool(b) == [t |-> "bool", b |-> b]
Arr(a) == [t |-> "arr", a |-> a]
Obj(o) == [t |-> "obj", o |-> o]

(* typeof x *)
TypeOf(x) ==
  CASE x.t \in {"num", "nan"} -> "number"
    [] x.t = "str" -> "string"
    [] x.t = "bool" -> "boolean"
    [] x.t = "undefined" -> "undefined"
    [] OTHER -> "object"

Rest(s, i) == SubSeq(s, i, Len(s))

StartsWith(s, prefix) ==
  Len(prefix) <= Len(s) /\ SubSeq(s, 1, Len(prefix)) = prefix

(* \s *)
WhiteSpace == {" ", "\t", "\n", "\r", "\f"}

(* \d, and the value of a digit *)
Digits == {"0", "1", "2", "3", "4", "5", "6", "7", "8", "9"}

DigitVal(c) ==
  CASE c = "0" -> 0 [] c = "1" -> 1 [] c = "2" -> 2 [] c = "3" -> 3
    [] c = "4" -> 4 [] c = "5" -> 5 [] c = "6" -> 6 [] c = "7" -> 7
    [] c = "8" -> 8 [] c = "9" -> 9

(* s.replace(/[class]/g, ""): every character of the class is removed. *)
RECURSIVE RemoveAll(_, _)
RemoveAll(s, class) ==
  IF s = "" THEN ""
  ELSE (IF Head(s) \in class THEN "" ELSE Head(s))
         \o RemoveAll(Rest(s, 2), class)

(* s.replace(/[class]/, ""): only the first character of the class is removed. *)
RECURSIVE RemoveFirst(_, _)
RemoveFirst(s, class) ==
  IF s = "" THEN ""
  ELSE IF Head(s) \in class THEN Rest(s, 2)
  ELSE Head(s) \o RemoveFirst(Rest(s, 2), class)

(* The longest prefix of s made of characters of the class. *)
RECURSIVE Span(_, _)
Span(s, class) ==
  IF s = "" \/ Head(s) \notin class THEN ""
  ELSE Head(s) \o Span(Rest(s, 2), class)

RECURSIVE IntVal(_)
IntVal(d) ==
  IF d = "" THEN 0
  ELSE IntVal(SubSeq(d, 1, Len(d) - 1)) * 10 + DigitVal(SubSeq(d, Len(d), Len(d)))

(* The decimal literal parseFloat reads at the start of s: leading white   *)
(* space is skipped, then an optional sign, digits, and an optional point  *)
(* followed by digits.  Whatever follows the literal is ignored.           *)
Literal(s) ==
  LET t == Rest(s, Len(Span(s, WhiteSpace)) + 1)
      signed == t # "" /\ Head(t) \in {"-", "+"}
      u == IF signed THEN Rest(t, 2) ELSE t
      int == Span(u, Digits)
      v == Rest(u, Len(int) + 1)
      frac == IF v # "" /\ Head(v) = "." THEN Span(Rest(v, 2), Digits) ELSE ""
  IN [negative |-> signed /\ Head(t) = "-", int |-> int, frac |-> frac]

(* A fraction in thousandths: its first three digits, zeros added. *)
Thousandths(frac) == IntVal(SubSeq(frac \o "000", 1, 3))

(* parseFloat(s): NaN when s starts with no decimal literal, its value      *)
(* otherwise.  The strings of the model hold no exponent and no "Infinity", *)
(* so those two forms of a literal are left out.                            *)
parseFloat(s) ==
  LET l == Literal(s)
      magnitude == IntVal(l.int) * 1000 + Thousandths(l.frac)
  IN IF l.int = "" /\ l.frac = "" THEN NaN
     ELSE Num(IF l.negative THEN 0 - magnitude ELSE magnitude)

(* [$,\s] *)
PricingNoise == {"$", ","} \cup WhiteSpace

(* Mutant of parsePricing: the replace without its g flag. *)
parsePricing_firstOnly(value) ==
  IF value = Null \/ value = Undefined THEN Null
  ELSE IF TypeOf(value) = "number" THEN value
  ELSE IF TypeOf(value) = "string"
    THEN LET cleaned == RemoveFirst(value.s, PricingNoise)
             parsed == parseFloat(cleaned)
         IN IF parsed = NaN THEN Null ELSE parsed
  ELSE Null

parsePricing(value) ==
  IF value = Null \/ value = Undefined THEN Null
  ELSE IF TypeOf(value) = "number" THEN value
  ELSE IF TypeOf(value) = "string"
    THEN LET cleaned == RemoveAll(value.s, PricingNoise)
             parsed == parseFloat(cleaned)
         IN IF parsed = NaN THEN Null ELSE parsed
  ELSE Null

(***************************************************************************)
(* parsePricing on its own.  The strings are all the strings of up to       *)
(* MaxStrLen characters of Alphabet, and the examples of the contract.  A   *)
(* number is held in thousandths, so a string of the domain has at most     *)
(* three decimals.                                                          *)
(***************************************************************************)
MaxStrLen == 4

Alphabet == {"$", ",", " ", "0", "1", "2", ".", "-", "a"}

RECURSIVE StringsOf(_)
StringsOf(n) ==
  IF n = 0 THEN {""}
  ELSE {s \o c : s \in StringsOf(n - 1), c \in Alphabet}

ExampleStrings == {"$0.02", "  $1,234.5 ", "abc", "$0.025", "\t7\n", "1,000,000"}

PricingStrings ==
  {s \in UNION {StringsOf(n) : n \in 0..MaxStrLen} \cup ExampleStrings :
     Len(Literal(RemoveAll(s, PricingNoise)).frac) <= 3}

PricingNumbers == {Num(0), Num(20), Num(25), Num(0 - 1500), Num(1234500), NaN}

PricingValues ==
  {Null, Undefined, Bool(TRUE), Bool(FALSE), Arr(<<>>)}
    \cup PricingNumbers \cup {Str(s) : s \in PricingStrings}

InitPricing ==
  /\ store = [id \in IdSet |-> NoRow]
  /\ env = Undefined
  /\ req = [r \in Reqs |-> Idle]
  /\ invocations = 0
  /\ externals = 0
  /\ prev = NoPrev
  /\ lookups = <<>>
  /\ pricing \in {[pc |-> "called", value |-> v] : v \in PricingValues}
  /\ scrape = NotCalled

ParsePricing ==
  /\ pricing.pc = "called"
  /\ pricing' = [pc |-> "returned", value |-> pricing.value,
                 result |-> parsePricing(pricing.value)]
  /\ UNCHANGED <<store, env, req, invocations, externals, prev, lookups,
                 scrape>>

NextPricing == ParsePricing

SpecPricing == InitPricing /\ [][NextPricing]_vars

(***************************************************************************)
(* Property access on a parsed payload.  x.k of an object is its field or  *)
(* undefined; x.k of a number, a string, a boolean or an array is          *)
(* undefined for the keys the scraper reads; x.k of null or undefined      *)
(* raises, which the callers below test before they read.                  *)
(***************************************************************************)
Nullish(x) == x.t \in {"null", "undefined"}

Get(x, k) == IF x.t = "obj" /\ k \in DOMAIN x.o THEN x.o[k] ELSE Undefined

(* x?.k *)
OptGet(x, k) == IF Nullish(x) THEN Undefined ELSE Get(x, k)

(* a ?? b *)
Coalesce(a, b) == IF Nullish(a) THEN b ELSE a

(* !x for a parsed value *)
Not(x) == Falsy(x) \/ x = Bool(FALSE) \/ x = NaN

(* What for ... of visits: the elements of an array, the characters of a   *)
(* string.  Any other value is not iterable.                               *)
Iterable(x) == x.t \in {"arr", "str"}

Elements(x) ==
  IF x.t = "arr" THEN x.a
  ELSE [i \in 1..Len(x.s) |-> Str(SubSeq(x.s, i, i))]

ScrapedModel(id, imageGen, webSearch) ==
  [id |-> id, pricingImageGen |-> imageGen, pricingWebSearch |-> webSearch]

(* The loop of extractFromNextData over the entries not yet visited.  An    *)
(* entry that is null raises on modelData.id and the catch returns the      *)
(* records pushed so far.                                                   *)
RECURSIVE Traverse(_, _)
Traverse(entries, models) ==
  IF entries = <<>> THEN [models |-> models, threw |-> FALSE]
  ELSE LET modelData == Head(entries)
       IN IF Nullish(modelData) THEN [models |-> models, threw |-> TRUE]
          ELSE IF Not(Get(modelData, "id"))
            THEN Traverse(Tail(entries), models)
          ELSE LET imageGen ==
                     parsePricing(
                       Coalesce(Get(modelData, "imageGen"),
                         Coalesce(OptGet(Get(modelData, "capabilities"), "imageGen"),
                                  Null)))
                   webSearch ==
                     parsePricing(
                       Coalesce(Get(modelData, "webSearch"),
                         Coalesce(OptGet(Get(modelData, "capabilities"), "webSearch"),
                                  Null)))
               IN Traverse(Tail(entries),
                           Append(models,
                                  ScrapedModel(Get(modelData, "id"),
                                               imageGen, webSearch)))

(* props.models ?? props.data?.models ?? [] *)
modelsData(props) ==
  Coalesce(Get(props, "models"),
    Coalesce(OptGet(Get(props, "data"), "models"), Arr(<<>>)))

(* extractFromNextData: the records, and whether the catch was entered. *)
extractFromNextData(nextData) ==
  LET props == OptGet(OptGet(nextData, "props"), "pageProps")
  IN IF Not(props) THEN [models |-> <<>>, threw |-> FALSE]
     ELSE IF ~Iterable(modelsData(props))
       THEN [models |-> <<>>, threw |-> TRUE]
     ELSE Traverse(Elements(modelsData(props)), <<>>)

(***************************************************************************)
(* The markup.  The regular expressions carry the i flag, so their literal  *)
(* parts are looked for in the lower-cased text.  The em-dash is written    *)
(* "^" here, a character the markup of the model does not otherwise use.    *)
(***************************************************************************)
EmDash == "^"

UpperCase == "ABCDEFGHIJKLMNOPQRSTUVWXYZ"
LowerCase == "abcdefghijklmnopqrstuvwxyz"

LowerOf ==
  [c \in {SubSeq(UpperCase, i, i) : i \in 1..Len(UpperCase)} |->
     LET i == CHOOSE i \in 1..Len(UpperCase) : SubSeq(UpperCase, i, i) = c
     IN SubSeq(LowerCase, i, i)]

LowerChar(c) == IF c \in DOMAIN LowerOf THEN LowerOf[c] ELSE c

(* The element of a set of one element: The({F(x) : x \in {v}}) is F(v),   *)
(* with v computed once.                                                    *)
The(S) == CHOOSE r \in S : TRUE

(* s in lower case *)
RECURSIVE Lower(_)
Lower(s) ==
  The({IF Len(t) <= 1 THEN LowerChar(t)
    ELSE Lower(SubSeq(t, 1, Len(t) \div 2)) \o Lower(Rest(t, Len(t) \div 2 + 1))
      : t \in {s}})

(* pat occurs in s at place i. *)
MatchAt(s, i, pat) ==
  /\ i >= 1
  /\ i + Len(pat) - 1 <= Len(s)
  /\ SubSeq(s, i, i + Len(pat) - 1) = pat

(* The places at or after from where pat occurs in s. *)
Occurrences(s, pat, from) ==
  {i \in from..(Len(s) - Len(pat) + 1) : MatchAt(s, i, pat)}

Least(S) == CHOOSE i \in S : \A j \in S : i <= j
Greatest(S) == CHOOSE i \in S : \A j \in S : i >= j

(* The first place at or after from where pat occurs in s, 0 when none. *)
IndexOf(s, pat, from) ==
  The({IF \E i \in places : MatchAt(s, i, pat)
      THEN CHOOSE i \in places :
             /\ MatchAt(s, i, pat)
             /\ \A j \in from..(i - 1) : ~MatchAt(s, j, pat)
      ELSE 0
      : places \in {from..(Len(s) - Len(pat) + 1)}})

(* /a|b|.../i.test(s) for literal alternatives; s is given in lower case *)
Test(s, alternatives) ==
  \E pat \in alternatives : IndexOf(s, pat, 1) > 0

(* The first place at or after i that holds no white space. *)
SkipWhiteSpace(s, i) ==
  Least({k \in i..(Len(s) + 1) :
           k = Len(s) + 1 \/ SubSeq(s, k, k) \notin WhiteSpace})

(* /First\s+Second|first[\s-]?second/i.test(s); s is given in lower case *)
TestLabel(s, first, second) ==
  \E i \in Occurrences(s, first, 1) :
    \/ MatchAt(s, i + Len(first), second)
    \/ MatchAt(s, i + Len(first), "-" \o second)
    \/ /\ SkipWhiteSpace(s, i + Len(first)) > i + Len(first)
       /\ MatchAt(s, SkipWhiteSpace(s, i + Len(first)), second)

(* /—|none|no/i.test(rowHtml); lower is rowHtml in lower case *)
Negated(lower) == Test(lower, {EmDash, "none", "no"})

(* extractPricingFromRow: priceRegex matches at the first "$" that a digit  *)
(* follows; the capture is the digits, a point if one follows, and the      *)
(* digits after it.  The capability is not used.                            *)
extractPricingFromRow(rowHtml, capability) ==
  The({The({IF at = {} THEN Null
           ELSE The({The({IF price = NaN THEN Null ELSE price
                 : price \in {parseFloat(capture)}})
               : capture \in {Rest(row, Least(at) + 1)}})
        : at \in {{i \in Occurrences(row, "$", 1) :
                      SubSeq(row, i + 1, i + 1) \in Digits}}})
      : row \in {rowHtml}})

providerPatterns ==
  << [pattern |-> {"openai", "gpt"}, provider |-> "openai"],
     [pattern |-> {"anthropic", "claude"}, provider |-> "anthropic"],
     [pattern |-> {"google", "gemini"}, provider |-> "google"],
     [pattern |-> {"xai", "grok"}, provider |-> "xai"],
     [pattern |-> {"meta", "llama"}, provider |-> "meta"],
     [pattern |-> {"mistral"}, provider |-> "mistral"],
     [pattern |-> {"deepseek"}, provider |-> "deepseek"] >>

(* The patterns of providerPatterns that test true on the row. *)
Matching(rowHtml) ==
  The({{k \in 1..Len(providerPatterns) : Test(lower, providerPatterns[k].pattern)}
      : lower \in {Lower(rowHtml)}})

(* Mutant of inferModelId: the slug prefix is tried before the patterns. *)
inferModelId_slugFirst(slug, rowHtml) ==
  The({IF StartsWith(slug, "gpt-") THEN Str("openai/" \o slug)
    ELSE IF StartsWith(slug, "claude-") THEN Str("anthropic/" \o slug)
    ELSE IF StartsWith(slug, "gemini-") THEN Str("google/" \o slug)
    ELSE IF StartsWith(slug, "grok-") THEN Str("xai/" \o slug)
    ELSE IF matching # {}
      THEN Str(providerPatterns[Least(matching)].provider \o "/" \o slug)
    ELSE Null
      : matching \in {Matching(rowHtml)}})

(* inferModelId: slug.replace(/-/g, "-") is the slug itself. *)
inferModelId(slug, rowHtml) ==
  The({IF matching # {}
      THEN Str(providerPatterns[Least(matching)].provider \o "/" \o slug)
    ELSE IF StartsWith(slug, "gpt-") THEN Str("openai/" \o slug)
    ELSE IF StartsWith(slug, "claude-") THEN Str("anthropic/" \o slug)
    ELSE IF StartsWith(slug, "gemini-") THEN Str("google/" \o slug)
    ELSE IF StartsWith(slug, "grok-") THEN Str("xai/" \o slug)
    ELSE Null
      : matching \in {Matching(rowHtml)}})

(***************************************************************************)
(* modelRowRegex.exec from position from:                                   *)
(*   <tr[^>]*>  [\s\S]*?  <a[^>]*href="/ai-gateway/models/([^"]+)"[^>]*>    *)
(*   [\s\S]*?  </tr>                                                        *)
(* The opening tag ends at the first ">" after "<tr".  The link is the      *)
(* first "<a" after it from which the rest can match; inside that tag the   *)
(* greedy [^>]* takes the last href it can.  The slug runs to the next      *)
(* quote, the link tag to the next ">", and the row to the next "</tr>".    *)
(***************************************************************************)
HrefPrefix == "href=\"/ai-gateway/models/"

(* The link matched at a with the href at h: where the slug starts and      *)
(* ends and where the row ends; ok is FALSE when the rest cannot match.     *)
LinkAt(lower, a, h) ==
  The({The({The({[ok |-> quote > h + Len(HrefPrefix) /\ close > 0 /\ rowEnd > 0,
              slugFrom |-> h + Len(HrefPrefix), slugTo |-> quote - 1,
              rowTo |-> rowEnd + 4]
          : rowEnd \in {IF close = 0 THEN 0 ELSE IndexOf(lower, "</tr>", close + 1)}})
        : close \in {IF quote = 0 THEN 0 ELSE IndexOf(lower, ">", quote + 1)}})
      : quote \in {IndexOf(lower, "\"", h + Len(HrefPrefix))}})

(* The hrefs that [^>]*href= can reach from the "<a" at a. *)
Hrefs(lower, a) ==
  The({{h \in Occurrences(lower, HrefPrefix, a + 2) : close = 0 \/ close > h}
      : close \in {IndexOf(lower, ">", a + 2)}})

(* The "<a" tags of the text that the link part of the pattern can match. *)
Links(lower) ==
  {a \in Occurrences(lower, "<a", 1) :
     \E h \in Hrefs(lower, a) : LinkAt(lower, a, h).ok}

(* The "<tr" tags at or after from that a link follows. *)
RowStarts(lower, links, from) ==
  {p \in Occurrences(lower, "<tr", from) :
     The({(close > 0 /\ \E a \in links : a > close)
         : close \in {IndexOf(lower, ">", p + 3)}})}

(* rowRegex.exec(html) with lastIndex at from: the leftmost row start, the  *)
(* first link after its tag (the lazy quantifier), the last href of that    *)
(* link (the greedy quantifier), the first "</tr>" after it.                *)
exec(html, lower, links, from) ==
  The({IF starts = {} THEN [found |-> FALSE]
    ELSE The({The({The({[found |-> TRUE,
                slug |-> SubSeq(html, l.slugFrom, l.slugTo),
                row |-> SubSeq(html, Least(starts), l.rowTo),
                lastIndex |-> l.rowTo + 1]
            : l \in {LinkAt(lower, a,
                             Greatest({h \in Hrefs(lower, a) :
                                         LinkAt(lower, a, h).ok}))}})
          : a \in {Least({a \in links : a > close})}})
        : close \in {IndexOf(lower, ">", Least(starts) + 3)}})
      : starts \in {RowStarts(lower, links, from)}})

(* Mutant of RowRecord: both prices kept whatever the labels say. *)
RowRecord_noGate(modelId, rowHtml) ==
  ScrapedModel(modelId,
               extractPricingFromRow(rowHtml, "Image Gen"),
               extractPricingFromRow(rowHtml, "Web Search"))

(* The record pushed for a matched row whose id was inferred. *)
RowRecord(modelId, rowHtml) ==
  The({LET hasImageGen == TestLabel(lower, "image", "gen") /\ ~Negated(lower)
        hasWebSearch == TestLabel(lower, "web", "search") /\ ~Negated(lower)
        imageGenPrice == extractPricingFromRow(rowHtml, "Image Gen")
        webSearchPrice == extractPricingFromRow(rowHtml, "Web Search")
    IN ScrapedModel(modelId,
                    IF hasImageGen THEN imageGenPrice ELSE Null,
                    IF hasWebSearch THEN webSearchPrice ELSE Null)
      : lower \in {Lower(rowHtml)}})

(* The matches modelRowRegex.exec gives in turn, from position from on. *)
RECURSIVE MatchesFrom(_, _, _, _)
MatchesFrom(html, lower, links, from) ==
  The({IF ~match.found THEN <<>>
    ELSE <<[slug |-> match.slug, row |-> match.row]>>
           \o MatchesFrom(html, lower, links, match.lastIndex)
      : match \in {exec(html, lower, links, from)}})

(* The matches of the whole text. *)
Matches(html) ==
  The({The({The({MatchesFrom(text, lower, links, 1)
          : links \in {Links(lower)}})
        : lower \in {Lower(text)}})
      : text \in {html}})

(* One pass of the loop on a match: the inferred id and the record. *)
Candidate(match) ==
  The({[modelId |-> modelId, record |-> RowRecord(modelId, match.row)]
      : modelId \in {inferModelId(match.slug, match.row)}})

(* The loop body over the matches: one record for each match whose id can  *)
(* be inferred.                                                             *)
RowRecords(rows) ==
  The({The({[i \in 1..Len(kept) |-> kept[i].record]
        : kept \in {SelectSeq([i \in 1..Len(matches) |-> Candidate(matches[i])],
                             LAMBDA c : c.modelId # Null)}})
      : matches \in {rows}})

extractFromHTML(html) == RowRecords(Matches(html))

(***************************************************************************)
(* scrapeVercelModelsPage.  What the page server will answer is drawn at    *)
(* the call: fetch rejects, or resolves with a response that is not ok, or  *)
(* with an ok response whose text() rejects or resolves with the page.      *)
(* The page is held in two parts: the text of its __NEXT_DATA__ script      *)
(* element, if it has one, and its markup.  The text of the script is held  *)
(* as what JSON.parse makes of it: a SyntaxError, or a value.               *)
(***************************************************************************)
NoScript == [t |-> "none"]
Malformed == [t |-> "script", wellFormed |-> FALSE]
WellFormed(value) == [t |-> "script", wellFormed |-> TRUE, value |-> value]

MaxEntries == 2

Entries ==
  { Null,
    Obj([id |-> Str("openai/gpt-5"), imageGen |-> Str("$0.02")]),
    Obj([id |-> Str("perplexity/sonar"),
         imageGen |-> Null,
         capabilities |-> Obj([imageGen |-> Str("n/a"), webSearch |-> Num(5)])]),
    Obj([name |-> Str("untitled")]) }

RECURSIVE ListsOf(_)
ListsOf(n) ==
  IF n = 0 THEN {<<>>}
  ELSE {Append(l, x) : l \in ListsOf(n - 1), x \in Entries}

EntryLists == UNION {ListsOf(n) : n \in 0..MaxEntries}

(* pageProps: its models and its data.models, each a list, or missing, or   *)
(* null, or (for models) a value that cannot be iterated.                   *)
Absent == [t |-> "absent"]

WithField(o, k, v) ==
  IF v = Absent THEN o
  ELSE [x \in DOMAIN o \cup {k} |-> IF x = k THEN v ELSE o[x]]

NoFields == [x \in {} |-> Null]

PageProps ==
  {Obj(WithField(WithField(NoFields, "models", m), "data", d)) :
     m \in {Absent, Null, Num(5)} \cup {Arr(l) : l \in EntryLists},
     d \in {Absent, Null} \cup {Obj([models |-> Arr(l)]) : l \in EntryLists}}

Payloads ==
  {Null, Num(5), Obj(NoFields), Obj([props |-> Obj(NoFields)]),
   Obj([props |-> Obj([pageProps |-> Null])])}
    \cup {Obj([props |-> Obj([pageProps |-> p])]) : p \in PageProps}

GeminiRow ==
  "<tr><td><a href=\"/ai-gateway/models/gemini-3-flash\">Gemini 3 Flash</a>"
    \o "</td><td>Image Gen $0.02</td></tr>"

GptRow ==
  "<tr><td><a href=\"/ai-gateway/models/gpt-5\">GPT-5</a></td>"
    \o "<td>Web Search $12.5</td></tr>"

SonarRow ==
  "<tr><td><a href=\"/ai-gateway/models/sonar\">Sonar</a></td>"
    \o "<td>Web Search $5</td></tr>"

Markups ==
  {"<table></table>",
   "<table>" \o SonarRow \o "</table>",
   "<table>" \o GeminiRow \o "</table>",
   "<table>" \o GeminiRow \o GptRow \o "</table>"}

Htmls ==
  {[script |-> s, markup |-> m] :
     s \in {NoScript, Malformed} \cup {WellFormed(v) : v \in Payloads},
     m \in Markups}

NoHtml == [script |-> NoScript, markup |-> ""]

Pages ==
  {[fetch |-> "rejects", message |-> msg, ok |-> FALSE, status |-> "",
    text |-> "none", html |-> NoHtml] : msg \in {"fetch failed", "Unknown error"}}
    \cup {[fetch |-> "resolves", message |-> "", ok |-> FALSE, status |-> st,
           text |-> "none", html |-> NoHtml] :
            st \in {"404 Not Found", "500 Internal Server Error"}}
    \cup {[fetch |-> "resolves", message |-> "", ok |-> TRUE, status |-> "200 OK",
           text |-> "rejects", html |-> NoHtml]}
    \cup {[fetch |-> "resolves", message |-> "", ok |-> TRUE, status |-> "200 OK",
           text |-> "resolves", html |-> h] : h \in Htmls}

NoScrapeResult == [models |-> <<>>, errors |-> <<>>]

(* The call: errors and models are empty, fetch is awaited.  The fields     *)
(* ranNextData, nextDataThrew, extracted, ranHTML and rows are history:     *)
(* whether each strategy ran, what the payload gave, and the rows the       *)
(* markup scan matched.                                                     *)
ScrapeCalled(page) ==
  [pc |-> "fetching", page |-> page, errors |-> <<>>, models |-> <<>>,
   ranNextData |-> FALSE, nextDataThrew |-> FALSE, extracted |-> <<>>,
   ranHTML |-> FALSE, rows |-> <<>>, result |-> NoScrapeResult]

InitScrape ==
  /\ store = [id \in IdSet |-> NoRow]
  /\ env = Undefined
  /\ req = [r \in Reqs |-> Idle]
  /\ invocations = 0
  /\ externals = 0
  /\ prev = NoPrev
  /\ lookups = <<>>
  /\ pricing = NotCalled
  /\ scrape \in {ScrapeCalled(page) : page \in Pages}

(* The outer catch: one more error, and the result holds models as it is. *)
Caught(s, message) ==
  [s EXCEPT !.pc = "returned",
            !.result = [models |-> s.models,
                        errors |-> Append(s.errors, "Scraping failed: " \o message)]]

(* Mutant of ScrapeFetch: the status check stands outside the try block. *)
ScrapeFetch_statusOutsideTry ==
  /\ scrape.pc = "fetching"
  /\ scrape' =
       IF scrape.page.fetch = "rejects"
         THEN Caught(scrape, scrape.page.message)
       ELSE IF ~scrape.page.ok
         THEN [scrape EXCEPT !.pc = "threw"]
       ELSE [scrape EXCEPT !.pc = "reading"]
  /\ UNCHANGED <<store, env, req, invocations, externals, prev, lookups,
                 pricing>>

(* fetch settles: a rejection and a response that is not ok both end in the *)
(* outer catch; an ok response goes on to await response.text().            *)
ScrapeFetch ==
  /\ scrape.pc = "fetching"
  /\ scrape' =
       IF scrape.page.fetch = "rejects"
         THEN Caught(scrape, scrape.page.message)
       ELSE IF ~scrape.page.ok
         THEN Caught(scrape, "Failed to fetch models page: " \o scrape.page.status)
       ELSE [scrape EXCEPT !.pc = "reading"]
  /\ UNCHANGED <<store, env, req, invocations, externals, prev, lookups,
                 pricing>>

(* Mutant of FromHtml: the records of the markup are added to the records   *)
(* of the payload.                                                          *)
FromHtml_both(s, html) ==
  LET parsed == html.script # NoScript /\ html.script.wellFormed
      a == IF parsed THEN extractFromNextData(html.script.value)
           ELSE [models |-> <<>>, threw |-> FALSE]
      errors == IF html.script = Malformed
                  THEN Append(s.errors, "Failed to parse Next.js data: SyntaxError")
                  ELSE s.errors
      rows == Matches(html.markup)
      tableData == RowRecords(rows)
  IN [s EXCEPT !.pc = "returned",
               !.ranNextData = parsed,
               !.nextDataThrew = a.threw,
               !.extracted = a.models,
               !.ranHTML = TRUE,
               !.rows = rows,
               !.errors = errors,
               !.models = a.models \o tableData,
               !.result = [models |-> a.models \o tableData, errors |-> errors]]

(* The function from the page text on (lines 44 to 71): the payload if the  *)
(* script element is there and parses and gives a record, the markup        *)
(* otherwise.                                                               *)
FromHtml(s, html) ==
  LET parsed == html.script # NoScript /\ html.script.wellFormed
      a == IF parsed THEN extractFromNextData(html.script.value)
           ELSE [models |-> <<>>, threw |-> FALSE]
      errors == IF html.script = Malformed
                  THEN Append(s.errors, "Failed to parse Next.js data: SyntaxError")
                  ELSE s.errors
      rows == Matches(html.markup)
      tableData == RowRecords(rows)
  IN IF Len(a.models) > 0
       THEN [s EXCEPT !.pc = "returned",
                      !.ranNextData = TRUE,
                      !.nextDataThrew = a.threw,
                      !.extracted = a.models,
                      !.result = [models |-> a.models, errors |-> s.errors]]
       ELSE [s EXCEPT !.pc = "returned",
                      !.ranNextData = parsed,
                      !.nextDataThrew = a.threw,
                      !.ranHTML = TRUE,
                      !.rows = rows,
                      !.errors = errors,
                      !.models = tableData,
                      !.result = [models |-> tableData, errors |-> errors]]

(* response.text() settles. *)
ScrapeText ==
  /\ scrape.pc = "reading"
  /\ scrape' =
       IF scrape.page.text = "rejects"
         THEN Caught(scrape, "body stream failed")
         ELSE FromHtml(scrape, scrape.page.html)
  /\ UNCHANGED <<store, env, req, invocations, externals, prev, lookups,
                 pricing>>

NextScrape ==
  \/ ScrapeFetch
  \/ ScrapeText

SpecScrape == InitScrape /\ [][NextScrape]_vars

(***************************************************************************)
(* The scraper on pages without a payload, whose markup is a table of up to *)
(* MaxRows rows: extractFromHTML decides the result.                        *)
(***************************************************************************)
MaxRows == 2

TableRow(slug, name, cells) ==
  "<tr><td><a href=\"/ai-gateway/models/" \o slug \o "\">" \o name
    \o "</a></td><td>" \o cells \o "</td></tr>"

HeaderRow == "<tr><th>Model</th><th>Image Gen</th><th>Web Search</th></tr>"

TableRows ==
  { HeaderRow,
    GeminiRow,
    GptRow,
    SonarRow,
    TableRow("llama-3-70b", "Llama 3 by Meta", ""),
    TableRow("claude-opus-4", "Claude Opus 4", "Image Gen $0.04/M Web Search $0.01"),
    TableRow("grok-3", "Grok 3 (OpenAI compatible)", "Image Gen: none"),
    TableRow("mistral-large", "Mistral Large", "Web-Search " \o EmDash),
    TableRow("deepseek-r1", "DeepSeek R1", "image gen $.5 or $3"),
    TableRow("gemini-nano", "Gemini Nano", "Image Gen $0.02"),
    TableRow("gpt-4o", "GPT-4o", "IMAGE  GEN  WEB\tSEARCH"),
    TableRow("qwen-3", "Qwen 3", "imagegen $1") }

RECURSIVE TablesOf(_)
TablesOf(n) ==
  IF n = 0 THEN {""}
  ELSE {t \o row : t \in TablesOf(n - 1), row \in TableRows}

RowMarkups ==
  {"<table>" \o t \o "</table>" : t \in UNION {TablesOf(n) : n \in 0..MaxRows}}

InitMarkup ==
  /\ store = [id \in IdSet |-> NoRow]
  /\ env = Undefined
  /\ req = [r \in Reqs |-> Idle]
  /\ invocations = 0
  /\ externals = 0
  /\ prev = NoPrev
  /\ lookups = <<>>
  /\ pricing = NotCalled
  /\ scrape \in
       {ScrapeCalled([fetch |-> "resolves", message |-> "", ok |-> TRUE,
                      status |-> "200 OK", text |-> "resolves",
                      html |-> [script |-> NoScript, markup |-> m]]) :
          m \in RowMarkups}

SpecMarkup == InitMarkup /\ [][NextScrape]_vars

(***************************************************************************)
(* The properties.  They state what a row's classification should be in     *)
(* their own words: two prices are the same when both are absent or both    *)
(* are the same number.                                                     *)
(***************************************************************************)
SamePrice(a, b) ==
  \/ a.t = "null" /\ b.t = "null"
  \/ a.t = "num" /\ b.t = "num" /\ a.v = b.v

Differs(m) ==
  \/ ~SamePrice(m.pricingImageGen, getModelCapabilities(m.id).pricingImageGen)
  \/ ~SamePrice(m.pricingWebSearch, getModelCapabilities(m.id).pricingWebSearch)

Desired(m) ==
  [id |-> m.id,
   pricingImageGen |-> getModelCapabilities(m.id).pricingImageGen,
   pricingWebSearch |-> getModelCapabilities(m.id).pricingWebSearch]

SomeDiffers(existingModels) ==
  \E i \in 1..Len(existingModels) : Differs(existingModels[i])

(* C1: no step of a preview (GET) request, whatever its outcome, changes    *)
(* the store, and a preview never calls the bulk write.                     *)
C1_PreviewWritesNothing ==
  [][\A r \in DOMAIN req :
       ((req[r].method = "GET" \/ req'[r].method = "GET")
          /\ req'[r].pc # req[r].pc)
         => /\ store' = store
            /\ req[r].writeCalls = 0
            /\ req'[r].writeCalls = 0]_vars

C1_Witness ==
  \E r \in DOMAIN req :
    /\ req[r].method = "GET"
    /\ req[r].pc = "done"
    /\ req[r].response.ok
    /\ req[r].response.body.summary.willUpdate > 0
    /\ getEnabledModels(store) = req[r].existingModels

(* C2: an apply that has read the models and finds none of them changed     *)
(* (the empty list included) does not call the bulk write, and its report   *)
(* counts zero updated and zero failed.                                     *)
C2_NoChangeNoWrite ==
  \A r \in DOMAIN req :
    (req[r].method = "POST" /\ req[r].fetched
       /\ ~SomeDiffers(req[r].existingModels))
      => /\ req[r].writeCalls = 0
         /\ req[r].pc = "done"
         /\ req[r].response.ok
         /\ req[r].response.body.summary.updated = 0
         /\ req[r].response.body.summary.failed = 0

C2_Witness ==
  \E r \in DOMAIN req :
    /\ req[r].method = "POST"
    /\ req[r].fetched
    /\ Len(req[r].existingModels) >= 2
    /\ ~SomeDiffers(req[r].existingModels)
    /\ req[r].response.ok

(* C3: an apply that finds a changed model calls the bulk write exactly     *)
(* once, after the read has returned, with one record per changed model,    *)
(* holding its id and its looked-up prices, and no record of any other      *)
(* model.                                                                   *)
C3_ChangedWrittenOnce ==
  \A r \in DOMAIN req :
    LET q == req[r]
        batch == q.updates
    IN /\ q.writeCalls > 0
            => q.fetched /\ q.readCalls = 1 /\ q.method = "POST"
       /\ (q.method = "POST" /\ q.fetched /\ SomeDiffers(q.existingModels))
            => /\ q.writeCalls = 1
               /\ \A i \in 1..Len(q.existingModels) :
                    LET m == q.existingModels[i]
                        at == {j \in 1..Len(batch) : batch[j].id = m.id}
                    IN IF Differs(m)
                         THEN /\ Cardinality(at) = 1
                              /\ \A j \in at : batch[j] = Desired(m)
                         ELSE at = {}
               /\ \A j \in 1..Len(batch) :
                    \E i \in 1..Len(q.existingModels) :
                      q.existingModels[i].id = batch[j].id

C3_Witness ==
  \E r \in DOMAIN req :
    /\ req[r].method = "POST"
    /\ req[r].pc = "done"
    /\ req[r].response.ok
    /\ req[r].writeCalls = 1
    /\ Len(req[r].updates) >= 1
    /\ Len(req[r].unchanged) >= 1

C5_ChangedIffDiffers ==
  \A r \in DOMAIN req :
    LET q == req[r]
    IN q.fetched =>
         \A i \in 1..Len(q.existingModels) :
           LET m == q.existingModels[i]
           IN /\ q.method = "POST" =>
                   /\ (\E j \in 1..Len(q.updates) : q.updates[j].id = m.id)
                        <=> Differs(m)
                   /\ (\E j \in 1..Len(q.unchanged) : q.unchanged[j] = m.id)
                        <=> ~Differs(m)
              /\ q.method = "GET" =>
                   q.response.body.preview[i].willUpdate <=> Differs(m)

C5_Witness ==
  \E r \in DOMAIN req :
    LET q == req[r]
    IN /\ q.method = "POST"
       /\ q.fetched
       /\ \E i, k \in 1..Len(q.existingModels) :
            /\ q.existingModels[i].pricingImageGen = Num(0)
            /\ getModelCapabilities(q.existingModels[i].id).pricingImageGen = Null
            /\ \E j \in 1..Len(q.updates) :
                 q.updates[j].id = q.existingModels[i].id
            /\ q.existingModels[k].pricingWebSearch = Null
            /\ getModelCapabilities(q.existingModels[k].id) = Caps(Num(20), Null)
            /\ q.existingModels[k].pricingImageGen = Num(20)
            /\ \E j \in 1..Len(q.unchanged) :
                 q.unchanged[j] = q.existingModels[k].id

(* C6: when the bulk write returns with some records written and some       *)
(* refused, the apply answers with a report whose updated and failed counts *)
(* and error list are the store's, not with an error.                       *)
C6_PartialFailureReported ==
  \A r \in DOMAIN req :
    LET q == req[r]
    IN (q.method = "POST" /\ q.pc = "done" /\ ~q.threw /\ q.writeCalls = 1
          /\ q.successful >= 1 /\ q.failed >= 1)
         => /\ q.response.ok
            /\ q.response.body.success
            /\ q.response.body.summary.updated = q.successful
            /\ q.response.body.summary.failed = q.failed
            /\ q.response.body.details.errors = q.errors
            /\ Len(q.errors) = q.failed

C6_Witness ==
  \E r \in DOMAIN req :
    /\ req[r].method = "POST"
    /\ req[r].pc = "done"
    /\ req[r].response.ok
    /\ req[r].successful = 2
    /\ req[r].failed = 1

(* C7: in an apply report the list of updated models holds exactly the      *)
(* models whose write succeeded: it is as long as the updated count and     *)
(* names no model of the error list.                                        *)
C7_UpdatedListIsSuccesses ==
  \A r \in DOMAIN req :
    LET q == req[r]
    IN (q.method = "POST" /\ q.pc = "done" /\ q.response.ok)
         => LET body == q.response.body
            IN /\ Len(body.details.updated) = body.summary.updated
               /\ \A j \in 1..Len(body.details.updated) :
                    \A k \in 1..Len(body.details.errors) :
                      body.details.updated[j].id # body.details.errors[k].id

(* C8: for POST and GET alike, with no secret configured the request ends   *)
(* with the configuration error whatever key was sent, and with a secret    *)
(* configured a missing or different key ends it as unauthorized; in both   *)
(* cases neither the read nor the write is called and no report is made.    *)
C8_KeyChecksComeFirst ==
  \A r \in DOMAIN req :
    LET q == req[r]
        noSecret == env = Undefined \/ env = Str("")
        rejected(code, cause) ==
          /\ q.pc = "done"
          /\ q.response = [ok |-> FALSE, code |-> code, cause |-> cause]
          /\ q.readCalls = 0
          /\ q.writeCalls = 0
          /\ ~q.fetched
    IN q.pc # "idle" =>
         /\ noSecret =>
              rejected("bad_request:api", "MODELS_SYNC_API_KEY not configured")
         /\ (~noSecret /\ (q.apiKey = Null \/ q.apiKey # env)) =>
              rejected("unauthorized:api", "Invalid API key")

C8_Witness ==
  \E r \in DOMAIN req :
    /\ req[r].pc = "done"
    /\ req[r].method = "GET"
    /\ env = Str("")
    /\ req[r].apiKey = env
    /\ req[r].response.code = "bad_request:api"

(* C9: a request in which the read or the write raised ends with an error   *)
(* response, which is no report (no success flag, no summary); a request    *)
(* that passed the key checks and met no exception ends with a report.      *)
C9_ExceptionGivesErrorResponse ==
  \A r \in DOMAIN req :
    LET q == req[r]
    IN q.pc = "done" =>
         /\ q.threw =>
              /\ ~q.response.ok
              /\ q.response.code = "bad_request:api"
              /\ DOMAIN q.response = {"ok", "code", "cause"}
         /\ (~q.threw /\ q.readCalls = 1) =>
              /\ q.response.ok
              /\ q.response.body.success
              /\ "summary" \in DOMAIN q.response.body

C9_Witness ==
  \E r \in DOMAIN req :
    /\ req[r].method = "POST"
    /\ req[r].pc = "done"
    /\ req[r].threw
    /\ req[r].successful >= 1
    /\ req[r].processed < Len(req[r].updates)

(* C10: every call of the lookup made so far returned the mapping's own     *)
(* record when the id is a key of the mapping and the record of two absent  *)
(* prices when it is not, and each returned price is absent or a number.    *)
C10_LookupVerbatimOrDefault ==
  \A k \in 1..Len(lookups) :
    LET c == lookups[k]
        keys == DOMAIN MODEL_CAPABILITIES
    IN /\ c.modelId \in keys => c.result = MODEL_CAPABILITIES[c.modelId]
       /\ c.modelId \notin keys =>
            c.result = [pricingImageGen |-> Null, pricingWebSearch |-> Null]
       /\ \A f \in {"pricingImageGen", "pricingWebSearch"} :
            \/ c.result[f] = Null
            \/ c.result[f].t = "num" /\ c.result[f].v \in Int

C10_Witness ==
  /\ Len(lookups) = 2
  /\ lookups[1].modelId = "openai/gpt-5"
  /\ lookups[1].result = Caps(Num(20), Num(25))
  /\ lookups[2].modelId = "openai/GPT-4o"
  /\ lookups[2].result = Caps(Null, Null)

(* The characters of s that are not a "$", a "," or white space, in order. *)
RECURSIVE Stripped(_)
Stripped(s) ==
  IF s = "" THEN ""
  ELSE LET last == SubSeq(s, Len(s), Len(s))
       IN Stripped(SubSeq(s, 1, Len(s) - 1))
            \o (IF last \in {"$", ","} \cup WhiteSpace THEN "" ELSE last)

(* C11: parsePricing returns for every input, and what it returns is a      *)
(* number or absent: absent for null and undefined; the number itself for   *)
(* every number (0, negative and fractional ones included); for a string,   *)
(* the number read from the string without its "$", "," and white space, or *)
(* absent when no number can be read; absent for every other type.          *)
C11_ParsePricingTotal ==
  pricing.pc = "returned" =>
    LET v == pricing.value
        res == pricing.result
    IN /\ res = Null \/ TypeOf(res) = "number"
       /\ v.t \in {"null", "undefined"} => res = Null
       /\ v.t \in {"num", "nan"} => res = v
       /\ v.t = "str" =>
            LET number == parseFloat(Stripped(v.s))
            IN res = IF number = NaN THEN Null ELSE number
       /\ v.t \in {"bool", "arr", "obj"} => res = Null
       /\ v = Str("$0.02") => res = Num(20)
       /\ v = Str("  $1,234.5 ") => res = Num(1234500)
       /\ v = Str("abc") => res = Null
       /\ v = Str("$1,2") => res = Num(12000)
       /\ v = Str("-.2") => res = Num(0 - 200)
       /\ v = Str("1a") => res = Num(1000)
       /\ v = Str("1 2") => res = Num(12000)
       /\ v \in {Str(""), Str("-"), Str("."), Str("a1"), Str("$ ,")} => res = Null

C11_Witness ==
  /\ pricing.pc = "returned"
  /\ pricing.value = Str("  $1,234.5 ")
  /\ pricing.result = Num(1234500)

(* C12: scrapeVercelModelsPage never lets a failure out: whatever fetch     *)
(* does, every step of the call leads on to the return of a result and none *)
(* ends the call otherwise, and when fetch rejects or the response is not   *)
(* ok the result has no model and exactly one error.                        *)
C12_ScrapeNeverPropagates ==
  /\ [](scrape.pc \in {"fetching", "reading", "returned"})
  /\ [][/\ scrape.pc = "fetching" => scrape'.pc \in {"reading", "returned"}
        /\ scrape.pc = "reading" => scrape'.pc = "returned"]_vars
  /\ []((scrape.pc = "returned"
           /\ (scrape.page.fetch = "rejects" \/ ~scrape.page.ok))
          => /\ scrape.result.models = <<>>
             /\ Len(scrape.result.errors) = 1)

C12_Witness ==
  /\ scrape.pc = "returned"
  /\ scrape.page.fetch = "resolves"
  /\ ~scrape.page.ok
  /\ scrape.result.models = <<>>
  /\ scrape.result.errors =
       <<"Scraping failed: Failed to fetch models page: 404 Not Found">>

(* C13: every id held in a preview entry, in the batch handed to the bulk   *)
(* write, in the lists of unchanged and not-in-mapping models, in the       *)
(* errors or in a report is the id of a model the read returned; a model    *)
(* that only the static mapping knows appears in none of them.              *)
C13_OnlyCurrentIds ==
  \A r \in DOMAIN req :
    LET q == req[r]
        current == {q.existingModels[i].id : i \in 1..Len(q.existingModels)}
        Records(s) == \A i \in 1..Len(s) : s[i].id \in current
        Listed(s) == \A i \in 1..Len(s) : s[i] \in current
    IN /\ Records(q.updates)
       /\ Listed(q.unchanged)
       /\ Listed(q.notInMapping)
       /\ Records(q.errors)
       /\ (q.pc = "done" /\ q.response.ok /\ q.method = "POST")
            => /\ Records(q.response.body.details.updated)
               /\ Listed(q.response.body.details.notInMapping)
               /\ Records(q.response.body.details.errors)
       /\ (q.pc = "done" /\ q.response.ok /\ q.method = "GET")
            => Records(q.response.body.preview)

C13_Witness ==
  \E r \in DOMAIN req :
    /\ req[r].method = "POST"
    /\ req[r].pc = "done"
    /\ req[r].response.ok
    /\ Len(req[r].response.body.details.updated) >= 1
    /\ Len(req[r].response.body.details.notInMapping) >= 1
    /\ \E id \in DOMAIN MODEL_CAPABILITIES :
         \A i \in 1..Len(req[r].existingModels) : req[r].existingModels[i].id # id

(* C14: the reconciler makes exactly one diff per model read, in the order  *)
(* of the read: the i-th entry of a preview holds the id, the current       *)
(* prices and the desired prices of the i-th model read, and the batch of   *)
(* an apply holds the changed models in the order they were read.           *)
C14_DiffsInReadOrder ==
  \A r \in DOMAIN req :
    LET q == req[r]
    IN /\ (q.method = "GET" /\ q.pc = "done" /\ q.response.ok)
            => LET preview == q.response.body.preview
               IN /\ Len(preview) = Len(q.existingModels)
                  /\ \A i \in 1..Len(preview) :
                       LET m == q.existingModels[i]
                       IN /\ preview[i].id = m.id
                          /\ preview[i].current.pricingImageGen = m.pricingImageGen
                          /\ preview[i].current.pricingWebSearch = m.pricingWebSearch
                          /\ preview[i].new.pricingImageGen = Desired(m).pricingImageGen
                          /\ preview[i].new.pricingWebSearch = Desired(m).pricingWebSearch
                          /\ preview[i].willUpdate = Differs(m)
       /\ (q.method = "POST" /\ q.fetched)
            => /\ Ids(q.updates) = Ids(SelectSeq(q.existingModels, Differs))
               /\ q.unchanged =
                    Ids(SelectSeq(q.existingModels, LAMBDA m : ~Differs(m)))

C14_Witness ==
  \E r \in DOMAIN req :
    /\ req[r].method = "GET"
    /\ req[r].pc = "done"
    /\ req[r].response.ok
    /\ Len(req[r].response.body.preview) = 3
    /\ req[r].response.body.preview[1].id = "acme/custom-1"
    /\ req[r].response.body.preview[3].id = "xai/grok-3"
    /\ req[r].response.body.summary.willUpdate >= 2

CountIn(id, s) == Cardinality({i \in 1..Len(s) : s[i] = id})

(* C15 as written: every model read is in exactly one of the three lists    *)
(* updated, unchanged and not-in-mapping, so the three counts add up to the *)
(* number of models read.                                                   *)
C15_ThreeWayPartition ==
  \A r \in DOMAIN req :
    LET q == req[r]
    IN /\ (q.method = "POST" /\ q.fetched)
            => /\ \A i \in 1..Len(q.existingModels) :
                    CountIn(q.existingModels[i].id, Ids(q.updates))
                      + CountIn(q.existingModels[i].id, q.unchanged)
                      + CountIn(q.existingModels[i].id, q.notInMapping) = 1
               /\ Len(q.updates) + Len(q.unchanged) + Len(q.notInMapping)
                    = Len(q.existingModels)
       /\ (q.method = "GET" /\ q.pc = "done" /\ q.response.ok)
            => LET s == q.response.body.summary
               IN s.willUpdate + s.unchanged + s.notInMapping = s.total

(* C15, amended: every model read is in exactly one of the two lists        *)
(* updated and unchanged, so these two counts add up to the number of       *)
(* models read.  Not-in-mapping is a mark beside them: the list holds the   *)
(* models read that have no entry in the mapping, and each of these is in   *)
(* updated or unchanged as well.                                            *)
C15_TwoWayPartitionAndMark ==
  \A r \in DOMAIN req :
    LET q == req[r]
    IN /\ (q.method = "POST" /\ q.fetched)
            => /\ \A i \in 1..Len(q.existingModels) :
                    LET id == q.existingModels[i].id
                    IN /\ CountIn(id, Ids(q.updates))
                            + CountIn(id, q.unchanged) = 1
                       /\ CountIn(id, q.notInMapping)
                            = IF id \in DOMAIN MODEL_CAPABILITIES THEN 0 ELSE 1
               /\ Len(q.updates) + Len(q.unchanged) = Len(q.existingModels)
               /\ Len(q.notInMapping) <= Len(q.existingModels)
       /\ (q.method = "GET" /\ q.pc = "done" /\ q.response.ok)
            => LET s == q.response.body.summary
               IN /\ s.willUpdate + s.unchanged = s.total
                  /\ s.inMapping + s.notInMapping = s.total

C15_Witness ==
  \E r \in DOMAIN req :
    /\ req[r].method = "POST"
    /\ req[r].fetched
    /\ Len(req[r].existingModels) = 3
    /\ req[r].notInMapping = <<"acme/custom-1">>
    /\ \E i \in 1..Len(req[r].updates) : req[r].updates[i].id = "acme/custom-1"
    /\ Len(req[r].unchanged) >= 1

(* What the payload of a page gives: nothing when the page has no script    *)
(* element or its text does not parse, the records of extractFromNextData   *)
(* otherwise.                                                               *)
FromPayload(html) ==
  IF html.script # NoScript /\ html.script.wellFormed
    THEN extractFromNextData(html.script.value).models
    ELSE <<>>

(* C16: on a page that was read, the payload is tried first and the markup  *)
(* second: when the payload gives at least one record the result holds      *)
(* exactly those records and the markup is not scanned; when it gives none  *)
(* (no payload, a payload that does not parse, an empty extraction) the     *)
(* markup is scanned and the result holds exactly its records.              *)
C16_PayloadThenMarkup ==
  (scrape.pc = "returned" /\ scrape.page.text = "resolves") =>
    LET html == scrape.page.html
    IN /\ scrape.ranHTML => Len(FromPayload(html)) = 0
       /\ Len(FromPayload(html)) >= 1
            => /\ scrape.result.models = FromPayload(html)
               /\ scrape.ranNextData
               /\ ~scrape.ranHTML
       /\ Len(FromPayload(html)) = 0
            => /\ scrape.result.models = extractFromHTML(html.markup)
               /\ scrape.ranHTML

C16_Witness ==
  /\ scrape.pc = "returned"
  /\ scrape.page.text = "resolves"
  /\ Len(FromPayload(scrape.page.html)) = 2
  /\ scrape.result.models = FromPayload(scrape.page.html)
  /\ ~scrape.ranHTML
  /\ Len(extractFromHTML(scrape.page.html.markup)) = 2

(* C17: when the traversal of the payload raises, the payload strategy is   *)
(* given up without the call raising, and the markup is scanned: the result *)
(* holds the records of the markup, whatever records the traversal had      *)
(* built before it raised.                                                  *)
C17_ExceptionFallsThrough ==
  (scrape.pc = "returned" /\ scrape.page.text = "resolves"
     /\ scrape.nextDataThrew)
    => /\ scrape.ranHTML
       /\ scrape.result.models = extractFromHTML(scrape.page.html.markup)

(* C18: when pageProps.models is present but empty and pageProps.data.models *)
(* is a list that is not empty, the records extracted from the payload are   *)
(* those of the entries of pageProps.data.models.                            *)
C18_FirstNonEmptyList ==
  (scrape.pc = "returned" /\ scrape.page.text = "resolves"
     /\ scrape.page.html.script # NoScript
     /\ scrape.page.html.script.wellFormed)
    => LET props == OptGet(OptGet(scrape.page.html.script.value, "props"),
                           "pageProps")
       IN (/\ Get(props, "models") = Arr(<<>>)
           /\ Get(Get(props, "data"), "models").t = "arr"
           /\ Get(Get(props, "data"), "models") # Arr(<<>>))
            => scrape.extracted
                 = Traverse(Get(Get(props, "data"), "models").a, <<>>).models

(* The provider the claim gives a matched row: that of the first group of   *)
(* keywords, in the fixed order, of which one occurs anywhere in the row,   *)
(* whatever the case of the row; failing that, the one the start of the slug names;    *)
(* failing that, none.                                                      *)
ProviderOfRow(slug, row) ==
  LET order == << <<{"openai", "gpt"}, "openai">>,
                  <<{"anthropic", "claude"}, "anthropic">>,
                  <<{"google", "gemini"}, "google">>,
                  <<{"xai", "grok"}, "xai">>,
                  <<{"meta", "llama"}, "meta">>,
                  <<{"mistral"}, "mistral">>,
                  <<{"deepseek"}, "deepseek">> >>
      found == {k \in 1..Len(order) :
                  \E word \in order[k][1] : Occurrences(Lower(row), word, 1) # {}}
  IN IF found # {} THEN order[Least(found)][2]
     ELSE IF StartsWith(slug, "gpt-") THEN "openai"
     ELSE IF StartsWith(slug, "claude-") THEN "anthropic"
     ELSE IF StartsWith(slug, "gemini-") THEN "google"
     ELSE IF StartsWith(slug, "grok-") THEN "xai"
     ELSE "none"

(* C19: the markup scan gives one record for each matched row that has a    *)
(* provider, in the order of the rows, with the id provider/slug; a row     *)
(* without a provider gives no record and no error.                         *)
C19_ProviderInference ==
  (scrape.pc = "returned" /\ scrape.ranHTML) =>
    LET provided == SelectSeq(scrape.rows,
                              LAMBDA x : ProviderOfRow(x.slug, x.row) # "none")
    IN /\ Len(scrape.result.models) = Len(provided)
       /\ \A i \in 1..Len(provided) :
            scrape.result.models[i].id =
              Str(ProviderOfRow(provided[i].slug, provided[i].row)
                    \o "/" \o provided[i].slug)
       /\ scrape.page.html.script = NoScript => scrape.result.errors = <<>>

C19_Witness ==
  /\ scrape.pc = "returned"
  /\ scrape.ranHTML
  /\ Len(scrape.rows) = 2
  /\ scrape.rows[1].slug = "sonar"
  /\ scrape.rows[2].slug = "grok-3"
  /\ Len(scrape.result.models) = 1
  /\ scrape.result.models[1].id = Str("openai/grok-3")
  /\ scrape.result.errors = <<>>

VisitedList(nextData) ==
  LET props == OptGet(OptGet(nextData, "props"), "pageProps")
  IN IF Not(props) \/ modelsData(props).t # "arr" THEN <<>>
     ELSE modelsData(props).a

(* An entry of the list that cannot be read as a model, and an entry whose  *)
(* image price is a string that is not a price.                             *)
MalformedEntry(entry) == Nullish(entry)

BadPricing(entry) ==
  /\ ~Nullish(entry)
  /\ LET given == Coalesce(Get(entry, "imageGen"),
                    Coalesce(OptGet(Get(entry, "capabilities"), "imageGen"),
                             Null))
     IN given.t = "str" /\ parsePricing(given) = Null

(* C21: an extraction error is recovered where it happens: the entry at     *)
(* fault is skipped or its price defaulted, a description of the error is   *)
(* in the errors of the result, and the entries after it are still          *)
(* extracted, so every entry of the list that carries an id has its record. *)
C21_ExtractionErrorsRecorded ==
  (scrape.pc = "returned" /\ scrape.page.text = "resolves"
     /\ scrape.page.html.script # NoScript
     /\ scrape.page.html.script.wellFormed)
    => LET list == VisitedList(scrape.page.html.script.value)
           faulty == {i \in 1..Len(list) :
                        MalformedEntry(list[i]) \/ BadPricing(list[i])}
           named == {i \in 1..Len(list) :
                       ~Nullish(list[i]) /\ ~Not(Get(list[i], "id"))}
       IN /\ faulty # {} => Len(scrape.result.errors) >= 1
          /\ \A i \in named :
               \E k \in 1..Len(scrape.extracted) :
                 scrape.extracted[k].id = Get(list[i], "id")

(* C22: once an apply has returned its report with no record refused, and   *)
(* nobody else has written the store since the apply read it, the row of    *)
(* every model it read holds the looked-up prices; a model without a        *)
(* mapping entry holds two absent prices, and the row of a model that was   *)
(* classified unchanged is the row that was read.                           *)
C22_StoreMatchesLookup ==
  \A r \in DOMAIN req :
    LET q == req[r]
    IN (q.method = "POST" /\ q.pc = "done" /\ q.response.ok
          /\ q.failed = 0 /\ q.clean)
         => \A i \in 1..Len(q.existingModels) :
              LET m == q.existingModels[i]
              IN /\ store[m.id].present
                 /\ SamePrice(store[m.id].pricingImageGen,
                              getModelCapabilities(m.id).pricingImageGen)
                 /\ SamePrice(store[m.id].pricingWebSearch,
                              getModelCapabilities(m.id).pricingWebSearch)
                 /\ m.id \notin DOMAIN MODEL_CAPABILITIES
                      => /\ store[m.id].pricingImageGen = Null
                         /\ store[m.id].pricingWebSearch = Null
                 /\ ~Differs(m)
                      => /\ store[m.id].pricingImageGen = m.pricingImageGen
                         /\ store[m.id].pricingWebSearch = m.pricingWebSearch

C22_Witness ==
  \E r \in DOMAIN req :
    LET q == req[r]
    IN /\ q.method = "POST"
       /\ q.pc = "done"
       /\ q.response.ok
       /\ q.failed = 0
       /\ q.clean
       /\ q.successful >= 2
       /\ Len(q.unchanged) >= 1
       /\ \E i \in 1..Len(q.existingModels) :
            /\ q.existingModels[i].id = "acme/custom-1"
            /\ q.existingModels[i].pricingImageGen = Num(0)
            /\ store["acme/custom-1"] = Row(Null, Null)

(* C23: in an apply every model read is in exactly one of updates and       *)
(* unchanged, so the two lengths add up to the number of models read; and   *)
(* when the counts of the write add up to the number of records submitted,  *)
(* the report's updated, failed and unchanged add up to its totalModels.    *)
C23_ApplyCountsAddUp ==
  \A r \in DOMAIN req :
    LET q == req[r]
    IN /\ (q.method = "POST" /\ q.fetched)
            => /\ \A i \in 1..Len(q.existingModels) :
                    LET id == q.existingModels[i].id
                        inUpdates == \E j \in 1..Len(q.updates) :
                                       q.updates[j].id = id
                        inUnchanged == \E j \in 1..Len(q.unchanged) :
                                         q.unchanged[j] = id
                    IN inUpdates # inUnchanged
               /\ Len(q.updates) + Len(q.unchanged) = Len(q.existingModels)
       /\ (q.method = "POST" /\ q.pc = "done" /\ q.response.ok)
            => LET s == q.response.body.summary
                   u == q.updateResult
               IN u.successful + u.failed = Len(q.updates)
                    => s.updated + s.failed + s.unchanged = s.totalModels

C23_Witness ==
  \E r \in DOMAIN req :
    LET q == req[r]
    IN /\ q.method = "POST"
       /\ q.pc = "done"
       /\ q.response.ok
       /\ q.updateResult.successful = 1
       /\ q.updateResult.failed = 1
       /\ q.response.body.summary.unchanged = 1
       /\ q.response.body.summary.totalModels = 3

(* C24: a preview and an apply that read the same rows agree: the entries   *)
(* the preview marks willUpdate, each with its new prices, are the records  *)
(* of the batch the apply submits, one for one, and the unchanged count of  *)
(* the preview is the unchanged count of the apply and of its report.       *)
C24_PreviewAgreesWithApply ==
  \A g, p \in DOMAIN req :
    (/\ req[g].method = "GET" /\ req[g].pc = "done" /\ req[g].response.ok
     /\ req[p].method = "POST" /\ req[p].fetched
     /\ req[g].existingModels = req[p].existingModels)
      => LET body == req[g].response.body
             marked == SelectSeq(body.preview, LAMBDA e : e.willUpdate)
             announced == {[id |-> marked[i].id,
                            pricingImageGen |-> marked[i].new.pricingImageGen,
                            pricingWebSearch |-> marked[i].new.pricingWebSearch] :
                             i \in 1..Len(marked)}
             batch == {req[p].updates[j] : j \in 1..Len(req[p].updates)}
         IN /\ announced = batch
            /\ body.summary.willUpdate = Len(req[p].updates)
            /\ body.summary.unchanged = Len(req[p].unchanged)
            /\ (req[p].pc = "done" /\ req[p].response.ok)
                 => req[p].response.body.summary.unchanged
                      = body.summary.unchanged

C24_Witness ==
  \E g, p \in DOMAIN req :
    /\ req[g].method = "GET" /\ req[g].pc = "done" /\ req[g].response.ok
    /\ req[p].method = "POST" /\ req[p].pc = "done" /\ req[p].response.ok
    /\ req[g].existingModels = req[p].existingModels
    /\ req[g].response.body.summary.willUpdate = 2
    /\ req[g].response.body.summary.unchanged = 1
    /\ req[p].writeCalls = 1
    /\ req[p].successful = 2

(* C25: a preview and an apply that read the same rows report the same      *)
(* inMapping count; in each report it is the number of models read that     *)
(* have an entry in the mapping, so inMapping and notInMapping add up to    *)
(* the number of models read.                                               *)
C25_InMappingCountsAgree ==
  LET mapped(existingModels) ==
        Cardinality({i \in 1..Len(existingModels) :
                       existingModels[i].id \in DOMAIN MODEL_CAPABILITIES})
  IN /\ \A g \in DOMAIN req :
          (req[g].method = "GET" /\ req[g].pc = "done" /\ req[g].response.ok)
            => LET s == req[g].response.body.summary
               IN /\ s.inMapping = mapped(req[g].existingModels)
                  /\ s.inMapping + s.notInMapping = s.total
     /\ \A p \in DOMAIN req :
          (req[p].method = "POST" /\ req[p].pc = "done" /\ req[p].response.ok)
            => LET s == req[p].response.body.summary
               IN /\ s.inMapping = mapped(req[p].existingModels)
                  /\ s.inMapping + s.notInMapping = s.totalModels
     /\ \A g, p \in DOMAIN req :
          (/\ req[g].method = "GET" /\ req[g].pc = "done" /\ req[g].response.ok
           /\ req[p].method = "POST" /\ req[p].pc = "done" /\ req[p].response.ok
           /\ req[g].existingModels = req[p].existingModels)
            => req[g].response.body.summary.inMapping
                 = req[p].response.body.summary.inMapping

(* C26: two applies served side by side, their reads and the single writes  *)
(* of their batches interleaved in any order, every write done, no other    *)
(* writer: once both have answered, the row of every model both of them     *)
(* read holds the looked-up prices, and the apply that follows finds no     *)
(* changed model, calls no write and reports zero updated.                  *)
C26_OverlappingAppliesConverge ==
  (\A r \in Overlapping :
     /\ req[r].method = "POST" /\ req[r].pc = "done" /\ req[r].response.ok
     /\ req[r].failed = 0)
    => /\ \A i \in 1..Len(req[1].existingModels) :
            LET m == req[1].existingModels[i]
            IN (\E k \in 1..Len(req[2].existingModels) :
                  req[2].existingModels[k].id = m.id)
                 => /\ store[m.id].present
                    /\ SamePrice(store[m.id].pricingImageGen,
                                 getModelCapabilities(m.id).pricingImageGen)
                    /\ SamePrice(store[m.id].pricingWebSearch,
                                 getModelCapabilities(m.id).pricingWebSearch)
       /\ req[Following].fetched
            => /\ ~SomeDiffers(req[Following].existingModels)
               /\ req[Following].updates = <<>>
               /\ req[Following].writeCalls = 0
               /\ req[Following].pc = "done"
               /\ req[Following].response.ok
               /\ req[Following].response.body.summary.updated = 0

C26_Witness ==
  /\ \A r \in Overlapping :
       /\ req[r].method = "POST" /\ req[r].pc = "done" /\ req[r].response.ok
       /\ req[r].failed = 0
       /\ req[r].successful = 3
  /\ req[1].existingModels = req[2].existingModels
  /\ req[Following].pc = "done"
  /\ req[Following].response.ok
  /\ Len(req[Following].existingModels) = 3
  /\ req[Following].response.body.summary.unchanged = 3

====
